---- MODULE Spec2Model ----
(***************************************************************************)
(* The request / tool-call control loop of the four LocalAgent agents      *)
(* (src/Agents/blog_writer.py, code_agent.py, email_agent.py,              *)
(* rag_agent.py): llm_node -> router -> tools_node -> llm_node ... -> END, *)
(* driven by each agent's process_*_request entry point.                   *)
(*                                                                         *)
(* One behaviour follows one agent module (chosen in Init) through any     *)
(* number of sequential requests.  The language model and the tool         *)
(* handlers are external: the model's response and each handler's outcome  *)
(* are drawn nondeterministically from small sets.                         *)
(***************************************************************************)
EXTENDS Integers, Sequences, FiniteSets, TLC

\* ------------------------------------------------------------------ bounds
\* Model invocations made by the loop in one request.
MaxTurns == 3
\* Tool calls requested by the model in one request, over all its turns.
MaxToolCalls == 2
\* Model turns of one request when two requests interleave.
MaxConcTurns == 2

\* ------------------------------------------------------------------ agents
Agents == {"blog", "code", "email", "rag"}

\* The tools each agent's ToolNode can execute.
Registry(a) ==
    CASE a = "blog"  -> {"create_new_blog", "post_new_blog", "get_last_n_blogs"}
      [] a = "code"  -> {"analyze_and_edit_file"}
      [] a = "email" -> {"list_unread_emails", "summarize_email"}
      [] a = "rag"   -> {"retrieve_context", "answer_question"}

\* The tools bound to the chat model of each agent (llm.bind_tools).
Advertised(a) ==
    CASE a = "blog"  -> {}
      [] a = "code"  -> {"analyze_and_edit_file"}
      [] a = "email" -> {"list_unread_emails", "summarize_email"}
      [] a = "rag"   -> {"retrieve_context", "answer_question"}

\* Names the model may put in a tool call: the agent's tools, or a name that
\* no agent registers.
ToolNames(a) == Registry(a) \cup {"unknown_tool"}

\* Inputs and external outcomes.
UserTexts == {"hello"}
ModelTexts == {"", "answer"}
\* What a tool handler meets outside the process: its collaborators (the
\* helper model, the mailbox, the file system, the embedding service) work,
\* fail, or find nothing (no unread mail, no mail with the uid); without the
\* agent's credentials the content-writer and email handlers get no further
\* than the credential check.
ToolOutcomes(a, name, creds) ==
    CASE a = "blog"  -> IF creds THEN {"ok", "error"} ELSE {"no_credentials"}
      [] a = "email" -> IF creds THEN {"ok", "empty", "error"}
                        ELSE {"no_credentials"}
      [] a = "code"  -> {"ok", "error"}
      [] a = "rag"   -> IF name = "retrieve_context"
                        THEN {"ok", "empty", "error"} ELSE {"ok", "error"}

\* A name outside the registry reaches no handler.
OutcomeChoices(a, name, creds) ==
    IF name \in Registry(a) THEN ToolOutcomes(a, name, creds) ELSE {"not_run"}

AllToolOutcomes == {"ok", "empty", "error", "no_credentials", "not_run"}
UploadedContents == {"None", "", "file"}
DocumentChunks == {"None", "empty", "chunks"}

\* ---------------------------------------------------------------- messages
\* langchain_core.messages: one record shape for the four message classes.
SystemMessage(c) ==
    [type |-> "system", content |-> c, tool_calls |-> <<>>, tool_call_id |-> 0]
HumanMessage(c) ==
    [type |-> "human", content |-> c, tool_calls |-> <<>>, tool_call_id |-> 0]
AIMessage(c, tcs) ==
    [type |-> "ai", content |-> c, tool_calls |-> tcs, tool_call_id |-> 0]
ToolMessage(c, id) ==
    [type |-> "tool", content |-> c, tool_calls |-> <<>>, tool_call_id |-> id]

\* An entry of AIMessage.tool_calls: a dict with the keys name, args, id, type.
ToolCall(n, i) == [name |-> n, args |-> "args", id |-> i, type |-> "tool_call"]

\* dict.get(key, default)
EmptyDict == [k \in {} |-> ""]
DictGet(d, key, default) == IF key \in DOMAIN d THEN d[key] ELSE default

\* messages[-1]
Last(s) == s[Len(s)]

\* The tool calls of the model's response number their ids from `first`.
ToolCallsOf(names, first) ==
    [i \in 1..Len(names) |-> ToolCall(names[i], first + i - 1)]

\* Sequences over S of length at most n.
SeqUpTo(S, n) == UNION {[1..k -> S] : k \in 0..n}

VARIABLES
    agent,               \* the agent module this process runs
    pc,                  \* "idle", "llm", "route", "tools", "done",
                         \* "returned", "raised", "failed"
    history,             \* state['messages'] of the running graph
    app_state,           \* email_agent.app_state['messages']
    final_graph_output,  \* the entry point's final_graph_output['messages']
    uploaded_file_content, \* code_agent state['uploaded_file_content']
    llm_input,           \* messages_for_llm of the latest model invocation
    llm_output,          \* the response the latest model invocation returned
    decision,            \* the router's latest return value
    modelCalls,          \* llm.invoke calls made by llm_node in this request
    dispatches,          \* tools_node runs in this request
    toolCalls,           \* tool calls requested by the model in this request
    executed,            \* ids of the tool calls ToolNode has answered
    result,              \* the entry point's return value
    credentials,         \* the agent's credentials are set in the environment
    document_chunks,     \* process_rag_request's document_chunks argument
    tool_runs,           \* the handler runs of the latest tools_node run
    netCalls,            \* network calls made by tool handlers in this request
    helperCalls,         \* helper-model calls made by tool handlers
    credChecks,          \* credential checks made by tool handlers
    LOGGED_IN,           \* blog_writer.LOGGED_IN, the module-level flag
    \* Two threads inside one agent's entry point (SpecConc):
    heap,                \* the list objects each thread has created
    cells,               \* the list object each history variable is bound
                         \* to: app_state['messages'], or a call's local
    cafter,              \* each thread entered after the others had returned
    cpc,                 \* each thread's position in process_email_request
    cstate,              \* the list object each thread's graph state holds
    cfinal,              \* each thread's final_graph_output['messages']
    cnext,               \* what each thread's graph runs next
    cturns,              \* model turns of each thread's request
    cinput,              \* the history each thread's latest model turn read
    cresult              \* what each thread's request returned

concVars == <<heap, cells, cafter, cpc, cstate, cfinal, cnext, cturns, cinput,
              cresult>>

seqVars == <<agent, pc, history, app_state, final_graph_output,
             uploaded_file_content, llm_input, llm_output, decision,
             modelCalls, dispatches, toolCalls, executed, result, credentials,
             document_chunks, tool_runs, netCalls, helperCalls, credChecks,
             LOGGED_IN>>

vars == <<seqVars, concVars>>

\* ------------------------------------------------------------ turn executor
Preamble(a, upload) ==
    CASE a = "blog"  -> "blog_preamble"
      [] a = "email" -> "email_preamble"
      [] a = "code"  -> IF upload \notin {"None", ""}
                        THEN "code_preamble_with_file" ELSE "code_preamble"
      [] a = "rag"   -> "rag_preamble"

\* messages_for_llm: what llm_node passes to llm.invoke.
messages_for_llm(a, upload, messages) ==
    IF a = "rag"
    THEN messages
    ELSE <<SystemMessage(Preamble(a, upload))>> \o messages

\* llm.invoke calls in one llm_node run.
LlmInvocations == 1

\* Mutant: llm_node returns the model's response alone.
llm_node_reply_only(messages, response) == <<response>>

\* Mutant: llm_node appends the model's response twice.
llm_node_twice(messages, response) == messages \o <<response, response>>

\* Mutant: llm_node returns the list it sent to the model, preamble included.
llm_node_keeps_preamble(messages, response) ==
    <<SystemMessage("preamble")>> \o messages \o <<response>>

\* llm_node's return value {'messages': ...}.
llm_node(messages, response) == messages \o <<response>>

\* ------------------------------------------------------------------ router
Truthy(tcs) == Len(tcs) > 0

\* Mutant: the content-writer router dispatches on every assistant message.
router_blog_any_ai(messages) ==
    IF Last(messages).type = "ai" THEN "tools"
    ELSE IF Last(messages).type = "tool" THEN "llm"
    ELSE "end"

\* Mutant: an assistant message with text ends the loop.
router_blog_text_wins(messages) ==
    LET last_message == Last(messages) IN
    IF last_message.type = "ai" /\ last_message.content # "" THEN "end"
    ELSE IF last_message.type = "ai" /\ Truthy(last_message.tool_calls)
    THEN "tools"
    ELSE IF last_message.type = "tool" THEN "llm"
    ELSE "end"

router_blog(messages) ==
    LET last_message == Last(messages) IN
    IF last_message.type = "ai" /\ Truthy(last_message.tool_calls) THEN "tools"
    ELSE IF last_message.type = "tool" THEN "llm"
    ELSE "end"

\* Mutant: the file-editor router dispatches whenever tool calls are pending.
router_code_any_tool(messages) ==
    IF Truthy(Last(messages).tool_calls) THEN "tools" ELSE "end"

router_code(messages) ==
    LET last_message == Last(messages) IN
    IF Truthy(last_message.tool_calls)
    THEN LET first_call == last_message.tool_calls[1]
             function_name ==
                 DictGet(DictGet(first_call, "function", EmptyDict), "name", "")
         IN IF function_name = "analyze_and_edit_file" THEN "tools" ELSE "end"
    ELSE "end"

\* Mutant: the email router ends the loop whatever the last message carries.
router_email_always_end(messages) == "end"

router_email(messages) ==
    LET last_message == Last(messages) IN
    IF Truthy(last_message.tool_calls) THEN "tools" ELSE "end"

\* Mutant: the retrieval-QA router looks for tool calls in the whole history.
router_rag_scan_history(messages) ==
    IF \E i \in 1..Len(messages) : Truthy(messages[i].tool_calls)
    THEN "tools" ELSE "end"

\* Mutant: the router sends every assistant message to the tools.
router_rag_always_tools(messages) == "tools"

router_rag(messages) ==
    LET last_message == Last(messages) IN
    IF Truthy(last_message.tool_calls) THEN "tools" ELSE "end"

router(a, messages) ==
    CASE a = "blog"  -> router_blog(messages)
      [] a = "code"  -> router_code(messages)
      [] a = "email" -> router_email(messages)
      [] a = "rag"   -> router_rag(messages)

\* ------------------------------------------------------------ tool handlers
\* One run of a handler: whether it raised, the text it returned (or the text
\* of what it raised), and the credential checks, network calls and
\* helper-model calls it made.
Run(raised, text, checks, net, helper) ==
    [ran |-> TRUE, raised |-> raised, text |-> text,
     checks |-> checks, net |-> net, helper |-> helper]

\* No handler ran (the name is not in the registry).
NoRun(text) ==
    [ran |-> FALSE, raised |-> FALSE, text |-> text,
     checks |-> 0, net |-> 0, helper |-> 0]

\* login(): raises ValueError when a credential is missing; otherwise prints
\* and assigns LOGGED_IN = True.  The function has no `global LOGGED_IN`, so
\* the assignment binds a local name and the module-level flag keeps the
\* value it had.
login(flag, creds) == [raised |-> ~creds, global_flag |-> flag]

\* `if not LOGGED_IN: login()`: the login() runs a tool invocation makes.
LoginRuns(flag) == IF flag THEN 0 ELSE 1

\* The module-level flag after the handler runs of one dispatch: every
\* login() that returned leaves what it assigned to the global.
LoggedInAfter(flag, creds, runs) ==
    IF \E i \in 1..Len(runs) :
          runs[i].run.ran /\ runs[i].run.checks > 0 /\ ~runs[i].run.raised
    THEN login(flag, creds).global_flag
    ELSE flag

BloggerCredentialsError ==
    "Blogger credentials (BLOGGER_USERNAME, BLOGGER_API_KEY) must be set in environment variables."

\* create_new_blog: login() (outside the try), then raw_llm.invoke and
\* json.loads inside it.
create_new_blog(creds, outcome) ==
    IF ~LOGGED_IN /\ login(LOGGED_IN, creds).raised
    THEN Run(TRUE, BloggerCredentialsError, 1, 0, 0)
    ELSE IF outcome = "ok"
         THEN Run(FALSE, "blog post", LoginRuns(LOGGED_IN), 0, 1)
    ELSE Run(FALSE, "Error during blog creation", LoginRuns(LOGGED_IN), 0, 1)

\* post_new_blog: login(), then the file write inside the try.
post_new_blog(creds, outcome) ==
    IF ~LOGGED_IN /\ login(LOGGED_IN, creds).raised
    THEN Run(TRUE, BloggerCredentialsError, 1, 0, 0)
    ELSE IF outcome = "ok"
         THEN Run(FALSE, "Blog post saved successfully",
                  LoginRuns(LOGGED_IN), 0, 0)
    ELSE Run(FALSE, "Error saving blog post", LoginRuns(LOGGED_IN), 0, 0)

\* get_last_n_blogs: login(), then os.walk inside the try.
get_last_n_blogs(creds, outcome) ==
    IF ~LOGGED_IN /\ login(LOGGED_IN, creds).raised
    THEN Run(TRUE, BloggerCredentialsError, 1, 0, 0)
    ELSE IF outcome = "ok"
         THEN Run(FALSE, "blog files", LoginRuns(LOGGED_IN), 0, 0)
    ELSE Run(FALSE, "Error retrieving blog posts", LoginRuns(LOGGED_IN), 0, 0)

\* Mutant: connect() opens the connection before it looks at the credentials.
connect_check_after(creds, outcome) ==
    IF ~creds THEN [raises |-> "ValueError", net |-> 1]
    ELSE IF outcome = "error" THEN [raises |-> "ConnectionError", net |-> 1]
    ELSE [raises |-> "none", net |-> 1]

\* email_agent.connect(): what it raises ("none" when it returns a mailbox)
\* and whether it opened a connection.
connect(creds, outcome) ==
    IF ~creds THEN [raises |-> "ValueError", net |-> 0]
    ELSE IF outcome = "error" THEN [raises |-> "ConnectionError", net |-> 1]
    ELSE [raises |-> "none", net |-> 1]

NoUnreadText == "You have no unread messages."

\* bool(mb.fetch(...)): fetch returns a generator, and a generator object is
\* true whatever it will yield.
FetchTruthy(outcome) == TRUE

\* Mutant: list_unread_emails calls connect() before its try block.
list_unread_emails_connect_outside_try(creds, outcome) ==
    LET c == connect(creds, outcome) IN
    IF c.raises # "none" THEN Run(TRUE, "connect failed", 1, c.net, 0)
    ELSE IF outcome = "empty" THEN Run(FALSE, "[]", 1, c.net, 0)
    ELSE Run(FALSE, "unread list", 1, c.net, 0)

\* list_unread_emails: the whole body is inside try / except ConnectionError
\* / except Exception.
list_unread_emails(creds, outcome) ==
    LET c == connect(creds, outcome) IN
    IF c.raises = "ConnectionError"
    THEN Run(FALSE, "Error connecting to email server", 1, c.net, 0)
    ELSE IF c.raises # "none"
    THEN Run(FALSE, "An unexpected error occurred while listing unread emails",
             1, c.net, 0)
    ELSE IF ~FetchTruthy(outcome) THEN Run(FALSE, NoUnreadText, 1, c.net, 0)
    ELSE IF outcome = "empty" THEN Run(FALSE, "[]", 1, c.net, 0)
    ELSE Run(FALSE, "unread list", 1, c.net, 0)

\* summarize_email: the whole body is inside try / except ConnectionError /
\* except Exception.
summarize_email(creds, outcome) ==
    LET c == connect(creds, outcome) IN
    IF c.raises = "ConnectionError"
    THEN Run(FALSE, "Error connecting to email server", 1, c.net, 0)
    ELSE IF c.raises # "none"
    THEN Run(FALSE, "An unexpected error occurred while summarizing email",
             1, c.net, 0)
    ELSE IF outcome = "empty"
    THEN Run(FALSE, "Could not find email with uid", 1, c.net, 0)
    ELSE Run(FALSE, "summary", 1, c.net, 1)

\* analyze_and_edit_file: raw_llm.invoke inside try / except Exception.
analyze_and_edit_file(creds, outcome) ==
    IF outcome = "ok" THEN Run(FALSE, "modified content", 0, 0, 1)
    ELSE Run(FALSE, "Error during file analysis and editing", 0, 0, 1)

\* retrieve_context: nothing to search when the document_chunks argument is
\* empty; otherwise the embedding call, no try.
retrieve_context(creds, outcome) ==
    IF outcome = "empty"
    THEN Run(FALSE, "No document loaded or processed to retrieve context from.",
             0, 0, 0)
    ELSE IF outcome = "ok" THEN Run(FALSE, "context", 0, 1, 0)
    ELSE Run(TRUE, "embedding failed", 0, 1, 0)

\* answer_question: llm.invoke, no try.
answer_question(creds, outcome) ==
    IF outcome = "ok" THEN Run(FALSE, "answer from context", 0, 0, 1)
    ELSE Run(TRUE, "model failed", 0, 0, 1)

Handler(name, creds, outcome) ==
    CASE name = "create_new_blog"       -> create_new_blog(creds, outcome)
      [] name = "post_new_blog"         -> post_new_blog(creds, outcome)
      [] name = "get_last_n_blogs"      -> get_last_n_blogs(creds, outcome)
      [] name = "list_unread_emails"    -> list_unread_emails(creds, outcome)
      [] name = "summarize_email"       -> summarize_email(creds, outcome)
      [] name = "analyze_and_edit_file" -> analyze_and_edit_file(creds, outcome)
      [] name = "retrieve_context"      -> retrieve_context(creds, outcome)
      [] name = "answer_question"       -> answer_question(creds, outcome)

\* The document_chunks retrieve_context searches: its parameter is bound from
\* the arguments of the tool call; the graph state has no document_chunks
\* channel and tools_node adds nothing to the call.
SearchedChunks(call_args, request_chunks) == call_args

\* ---------------------------------------------------------- tool dispatcher
\* Mutant: a ToolNode built with handle_tool_errors=False.
handle_tool_errors_off == FALSE

\* ToolNode([...]) is built without handle_tool_errors: the default, under
\* which an exception of a handler becomes the text of its ToolMessage.
handle_tool_errors == TRUE

InvalidToolText == "Error: not a valid tool"
ToolNodeErrorText == "Error: exception raised by the tool. Please fix your mistakes."

\* The handler runs of one ToolNode.invoke: one per tool call of the last
\* message, in order.
ToolRuns(a, messages, outcomes) ==
    LET calls == Last(messages).tool_calls IN
    [i \in 1..Len(calls) |->
        [name |-> calls[i].name, outcome |-> outcomes[i],
         run |-> IF calls[i].name \in Registry(a)
                 THEN Handler(calls[i].name, credentials, outcomes[i])
                 ELSE NoRun(InvalidToolText)]]

\* Mutant: a dispatcher that raises on a name it does not know.
ToolNodeRaises_on_unknown(a, messages, outcomes) ==
    \E i \in 1..Len(Last(messages).tool_calls) :
        Last(messages).tool_calls[i].name \notin Registry(a)

\* ToolNode.invoke raises what a handler raised when it does not handle
\* tool errors.
ToolNodeRaises(a, messages, outcomes) ==
    /\ ~handle_tool_errors
    /\ \E i \in 1..Len(Last(messages).tool_calls) :
           ToolRuns(a, messages, outcomes)[i].run.raised

\* ToolNode.invoke(state)['messages']: one ToolMessage per tool call of the
\* last message, in order, each carrying its call's id; a name outside the
\* registry is answered with an error text.
tool_node_invoke(a, messages, outcomes) ==
    LET calls == Last(messages).tool_calls
        runs == ToolRuns(a, messages, outcomes)
    IN [i \in 1..Len(calls) |->
           ToolMessage(IF runs[i].run.raised THEN ToolNodeErrorText
                       ELSE runs[i].run.text,
                       calls[i].id)]

\* Mutant: tools_node keeps the result of the first tool call only.
tools_node_first_only(a, messages, outcomes) ==
    messages \o SubSeq(tool_node_invoke(a, messages, outcomes), 1, 1)

\* Mutant: tools_node puts the tool results in front of the history.
tools_node_results_first(a, messages, outcomes) ==
    tool_node_invoke(a, messages, outcomes) \o messages

\* tools_node's return value {'messages': ...}.
tools_node(a, messages, outcomes) ==
    messages \o tool_node_invoke(a, messages, outcomes)

\* Sum of f[i] over a sequence of numbers.
RECURSIVE SumSeq(_)
SumSeq(f) == IF Len(f) = 0 THEN 0 ELSE f[1] + SumSeq(Tail(f))

\* -------------------------------------------------------------- entry points
\* The fallback the entry point returns when it has no message to return.
NoResponse(a) ==
    CASE a = "blog"  -> "No response from Blog agent."
      [] a = "code"  -> "No response from code agent."
      [] a = "email" -> "No response from email agent."
      [] a = "rag"   -> "No response from RAG agent."

\* Mutant: the entry point returns the first message's content.
ReturnValue_first(a, final, slot) ==
    IF Len(final) > 0 THEN final[1].content ELSE NoResponse(a)

\* Mutant: the entry point returns the message before the last one.
ReturnValue_before_last(a, final, slot) ==
    IF Len(final) > 1 THEN final[Len(final) - 1].content
    ELSE IF Len(final) > 0 THEN final[1].content
    ELSE NoResponse(a)

\* The value the entry point returns once graph.stream is exhausted.
ReturnValue(a, final, slot) ==
    IF a = "email"
    THEN IF Len(slot) > 0
         THEN LET last_message == Last(slot) IN
              CASE last_message.type = "ai" ->
                     IF last_message.content # "" THEN last_message.content
                     ELSE IF Truthy(last_message.tool_calls)
                          THEN "AI requested tool call. Processing..."
                          ELSE "AI finished processing without explicit content."
                [] last_message.type = "tool" -> last_message.content
                [] OTHER -> "Agent Response: message"
         ELSE NoResponse(a)
    ELSE IF Len(final) > 0
         THEN LET last_message == Last(final) IN
              CASE last_message.type = "ai" -> last_message.content
                [] last_message.type = "tool" -> last_message.content
                [] OTHER -> "Agent response: message"
         ELSE NoResponse(a)

\* Mutant: the entry point does not look at document_chunks.
DocumentLoaded_unchecked(chunks) == TRUE

\* `if document_chunks:` in process_rag_request.
DocumentLoaded(chunks) == chunks = "chunks"

NoDocumentError ==
    "Error: No document processed. Please upload and process a document first."

\* Mutant: llm_node catches the failure and invokes the model again.
on_llm_error_retry == "retry"

\* response = llm.invoke(messages_for_llm) stands in no try block.
on_llm_error == "raise"

\* Mutant: the graph ends after the tools node.
tools_edge_end == "end"

\* Mutant: the tools node is followed by the router's conditional edges.
tools_edge_router == "router"

\* builder.add_edge('tools', 'llm')
tools_edge == "llm"

\* ------------------------------------------------------------------ actions
\* The threads calling the agent's entry point, and what each one asks.
Threads == {"A", "B"}
ThreadUserText(t) == IF t = "A" THEN "hello from A" ELSE "hello from B"

\* The variables a request's history is kept in between statements: the
\* module-level app_state['messages'] and the local variables of each call.
Cells == {"app_state"} \cup Threads

\* No thread has entered the entry point; app_state['messages'] is the list
\* of the module's import.
NoList == <<"import", 0>>
ConcInit ==
    /\ heap = [t \in Threads |-> <<>>]
    /\ cells = [c \in Cells |-> NoList]
    /\ cafter = [t \in Threads |-> FALSE]
    /\ cpc = [t \in Threads |-> "idle"]
    /\ cstate = [t \in Threads |-> NoList]
    /\ cfinal = [t \in Threads |-> NoList]
    /\ cnext = [t \in Threads |-> "llm"]
    /\ cturns = [t \in Threads |-> 0]
    /\ cinput = [t \in Threads |-> <<>>]
    /\ cresult = [t \in Threads |-> "none"]

Init ==
    /\ agent \in Agents
    /\ credentials \in BOOLEAN
    /\ agent \in {"code", "rag"} => credentials
    /\ pc = "idle"
    /\ history = <<>>
    /\ app_state = <<>>
    /\ final_graph_output = <<>>
    /\ uploaded_file_content = "None"
    /\ document_chunks = "None"
    /\ llm_input = <<>>
    /\ llm_output = HumanMessage("")
    /\ decision = "none"
    /\ modelCalls = 0
    /\ dispatches = 0
    /\ toolCalls = 0
    /\ executed = {}
    /\ tool_runs = <<>>
    /\ netCalls = 0
    /\ helperCalls = 0
    /\ credChecks = 0
    /\ LOGGED_IN = FALSE
    /\ result = "none"
    /\ ConcInit

\* process_blog_request / process_agent_request / process_email_request /
\* process_rag_request up to the first graph step.
Request ==
    /\ pc \in {"idle", "returned", "failed", "raised"}
    /\ \E user_message \in UserTexts, upload \in UploadedContents,
          chunks \in DocumentChunks :
        /\ upload # "None" => agent = "code"
        /\ chunks # "None" => agent = "rag"
        /\ uploaded_file_content' = upload
        /\ document_chunks' = chunks
        /\ IF agent = "rag" /\ ~DocumentLoaded(chunks)
           THEN /\ pc' = "returned"
                /\ result' = NoDocumentError
                /\ history' = <<>>
           ELSE /\ pc' = "llm"
                /\ result' = "none"
                /\ history' = <<HumanMessage(user_message)>>
        /\ app_state' = IF agent = "email"
                        THEN <<HumanMessage(user_message)>> ELSE app_state
    /\ final_graph_output' = <<>>
    /\ llm_input' = <<>>
    /\ llm_output' = HumanMessage("")
    /\ decision' = "none"
    /\ modelCalls' = 0
    /\ dispatches' = 0
    /\ toolCalls' = 0
    /\ executed' = {}
    /\ tool_runs' = <<>>
    /\ netCalls' = 0
    /\ helperCalls' = 0
    /\ credChecks' = 0
    /\ UNCHANGED <<agent, credentials, LOGGED_IN, concVars>>

\* The 'llm' node, and the entry point's handling of the update it streams.
LlmNode ==
    /\ pc = "llm"
    /\ modelCalls < MaxTurns
    /\ \E text \in ModelTexts,
          names \in SeqUpTo(ToolNames(agent), MaxToolCalls - toolCalls) :
        LET response == AIMessage(text, ToolCallsOf(names, toolCalls + 1))
            out == llm_node(history, response)
        IN /\ llm_input' = messages_for_llm(agent, uploaded_file_content, history)
           /\ llm_output' = response
           /\ history' = out
           /\ final_graph_output' = out
           /\ app_state' = IF agent = "email" THEN out ELSE app_state
           /\ toolCalls' = toolCalls + Len(names)
    /\ modelCalls' = modelCalls + LlmInvocations
    /\ pc' = "route"
    /\ UNCHANGED <<agent, uploaded_file_content, decision, dispatches,
                   executed, result, credentials, document_chunks, tool_runs,
                   netCalls, helperCalls, credChecks, LOGGED_IN, concVars>>

\* llm.invoke raises (timeout, connection refused, malformed response):
\* llm_node, the graph and the entry point have no handler, so the exception
\* leaves the entry point.
LlmFails ==
    /\ pc = "llm"
    /\ modelCalls < MaxTurns
    /\ llm_input' = messages_for_llm(agent, uploaded_file_content, history)
    /\ modelCalls' = modelCalls + LlmInvocations
    /\ pc' = IF on_llm_error = "raise" THEN "failed" ELSE "llm"
    /\ UNCHANGED <<agent, history, app_state, final_graph_output,
                   uploaded_file_content, llm_output, decision, dispatches,
                   toolCalls, executed, result, credentials, document_chunks,
                   tool_runs, netCalls, helperCalls, credChecks, LOGGED_IN,
                   concVars>>

\* The conditional edge after 'llm': {'tools': 'tools', 'end': END}.
Route ==
    /\ pc = "route"
    /\ decision' = router(agent, history)
    /\ pc' = CASE decision' = "tools" -> "tools"
               [] decision' = "end"   -> "done"
               [] OTHER               -> "error"
    /\ UNCHANGED <<agent, history, app_state, final_graph_output,
                   uploaded_file_content, llm_input, llm_output, modelCalls,
                   dispatches, toolCalls, executed, result, credentials,
                   document_chunks, tool_runs, netCalls, helperCalls,
                   credChecks, LOGGED_IN, concVars>>

\* The 'tools' node, the entry point's handling of its update, and the edge
\* 'tools' -> 'llm'.  An exception ToolNode does not handle leaves the graph
\* and the entry point.
ToolsNode ==
    /\ pc = "tools"
    /\ \E outcomes \in [1..Len(Last(history).tool_calls) -> AllToolOutcomes] :
        /\ \A i \in 1..Len(Last(history).tool_calls) :
              outcomes[i] \in OutcomeChoices(agent,
                                  Last(history).tool_calls[i].name, credentials)
        /\ LET out == tools_node(agent, history, outcomes)
               runs == ToolRuns(agent, history, outcomes)
               n == Len(runs)
           IN /\ tool_runs' = runs
              /\ netCalls' = netCalls + SumSeq([i \in 1..n |-> runs[i].run.net])
              /\ helperCalls' =
                     helperCalls + SumSeq([i \in 1..n |-> runs[i].run.helper])
              /\ credChecks' =
                     credChecks + SumSeq([i \in 1..n |-> runs[i].run.checks])
              /\ LOGGED_IN' = IF agent = "blog"
                              THEN LoggedInAfter(LOGGED_IN, credentials, runs)
                              ELSE LOGGED_IN
              /\ IF ToolNodeRaises(agent, history, outcomes)
                 THEN /\ pc' = "raised"
                      /\ UNCHANGED <<history, final_graph_output, app_state,
                                     executed, dispatches>>
                 ELSE /\ pc' = CASE tools_edge = "llm"    -> "llm"
                                  [] tools_edge = "router" -> "route"
                                  [] OTHER                 -> "done"
                      /\ history' = out
                      /\ final_graph_output' = out
                      /\ app_state' = IF agent = "email" THEN out ELSE app_state
                      /\ executed' = executed \cup
                             {tool_node_invoke(agent, history, outcomes)[i]
                                  .tool_call_id : i \in 1..n}
                      /\ dispatches' = dispatches + 1
    /\ UNCHANGED <<agent, uploaded_file_content, llm_input, llm_output,
                   decision, modelCalls, toolCalls, result, credentials,
                   document_chunks, concVars>>

\* The graph reached END: the entry point returns.
Return ==
    /\ pc = "done"
    /\ result' = ReturnValue(agent, final_graph_output, app_state)
    /\ pc' = "returned"
    /\ UNCHANGED <<agent, history, app_state, final_graph_output,
                   uploaded_file_content, llm_input, llm_output, decision,
                   modelCalls, dispatches, toolCalls, executed, credentials,
                   document_chunks, tool_runs, netCalls, helperCalls,
                   credChecks, LOGGED_IN, concVars>>

Next == Request \/ LlmNode \/ LlmFails \/ Route \/ ToolsNode \/ Return

Spec == Init /\ [][Next]_vars

\* ------------------------------------------- two interleaved requests
\* A list object is named by the thread that created it and its rank among
\* that thread's lists; lists are shared by reference, as in Python.
Deref(ref) == heap[ref[1]][ref[2]]
NewRef(t) == <<t, Len(heap[t]) + 1>>
Owner(ref) == ref[1]

\* Mutant: every agent keeps the history in a module-level variable.
HistoryCell_module(a, t) == "app_state"

\* Where a request keeps its history between statements: the email entry
\* point in the module-level app_state['messages'], the other entry points
\* in the locals initial_state and final_graph_output of the call.
HistoryCell(a, t) == IF a = "email" THEN "app_state" ELSE t

\* The tool the model calls while two requests interleave.
ConcTool(a) ==
    CASE a = "blog"  -> "get_last_n_blogs"
      [] a = "code"  -> "analyze_and_edit_file"
      [] a = "email" -> "list_unread_emails"
      [] a = "rag"   -> "answer_question"

\* The responses the model gives while two requests interleave.
ConcResponses(turn) ==
    {AIMessage("answer", <<>>),
     AIMessage("", ToolCallsOf(<<ConcTool(agent)>>, turn))}

\* The tools' collaborators work while two requests interleave.
ConcOutcomes == {"ok"}

\* Mutant: the entry point waits until no other request is in flight.
MayEnter_serialized(t, pcs) ==
    \A u \in Threads \ {t} : pcs[u] \in {"idle", "returned"}

\* No entry point takes a lock before it touches its history variable.
MayEnter(t, pcs) == TRUE

\* Mutant: the entry point keeps the list it finds.
fresh_list_keep(old) == old

\* The list literal `[]` of app_state['messages'] = [] (email), or the one
\* of {'messages': [HumanMessage(...)]} (the other agents).
fresh_list(old) == <<>>

\* What the history variable holds when a request enters.
Leftover(c) == IF cells[c] = NoList THEN <<>> ELSE Deref(cells[c])

\* app_state['messages'] = []
EmailReset(t) ==
    /\ cpc[t] = "idle"
    /\ MayEnter(t, cpc)
    /\ heap' = [heap EXCEPT ![t] =
                   Append(@, fresh_list(Leftover(HistoryCell(agent, t))))]
    /\ cells' = [cells EXCEPT ![HistoryCell(agent, t)] = NewRef(t)]
    /\ cafter' = [cafter EXCEPT ![t] =
                     \A u \in Threads \ {t} : cpc[u] = "returned"]
    /\ cpc' = [cpc EXCEPT ![t] = "append"]
    /\ UNCHANGED <<cstate, cfinal, cnext, cturns, cinput, cresult, seqVars>>

\* app_state['messages'].append(HumanMessage(content=user_message)): the list
\* the variable is bound to now grows in place.
EmailAppend(t) ==
    /\ cpc[t] = "append"
    /\ LET ref == cells[HistoryCell(agent, t)] IN
       heap' = [heap EXCEPT ![ref[1]][ref[2]] =
                   Append(@, HumanMessage(ThreadUserText(t)))]
    /\ cpc' = [cpc EXCEPT ![t] = "stream"]
    /\ UNCHANGED <<cells, cafter, cstate, cfinal, cnext, cturns, cinput,
                   cresult, seqVars>>

\* graph.stream(app_state): the graph's messages channel takes the list the
\* variable is bound to.
EmailStream(t) ==
    /\ cpc[t] = "stream"
    /\ cstate' = [cstate EXCEPT ![t] = cells[HistoryCell(agent, t)]]
    /\ cnext' = [cnext EXCEPT ![t] = "llm"]
    /\ cpc' = [cpc EXCEPT ![t] = "graph"]
    /\ UNCHANGED <<heap, cells, cafter, cfinal, cturns, cinput, cresult,
                   seqVars>>

\* One step of the graph: the 'llm' node and its conditional edge, up to the
\* yield of its update.
EmailLlmStep(t) ==
    /\ cpc[t] = "graph"
    /\ cnext[t] = "llm"
    /\ cturns[t] < MaxConcTurns
    /\ \E response \in ConcResponses(cturns[t] + 1) :
        LET out == llm_node(Deref(cstate[t]), response) IN
        /\ cinput' = [cinput EXCEPT ![t] = Deref(cstate[t])]
        /\ heap' = [heap EXCEPT ![t] = Append(@, out)]
        /\ cnext' = [cnext EXCEPT ![t] = router(agent, out)]
    /\ cstate' = [cstate EXCEPT ![t] = NewRef(t)]
    /\ cfinal' = [cfinal EXCEPT ![t] = NewRef(t)]
    /\ cturns' = [cturns EXCEPT ![t] = @ + 1]
    /\ cpc' = [cpc EXCEPT ![t] = "write"]
    /\ UNCHANGED <<cells, cafter, cresult, seqVars>>

\* One step of the graph: the 'tools' node and the edge back to 'llm', up to
\* the yield of its update.
EmailToolsStep(t) ==
    /\ cpc[t] = "graph"
    /\ cnext[t] = "tools"
    /\ \E outcomes \in [1..Len(Last(Deref(cstate[t])).tool_calls)
                           -> ConcOutcomes] :
        /\ heap' = [heap EXCEPT ![t] =
                       Append(@, tools_node(agent, Deref(cstate[t]), outcomes))]
    /\ cstate' = [cstate EXCEPT ![t] = NewRef(t)]
    /\ cfinal' = [cfinal EXCEPT ![t] = NewRef(t)]
    /\ cnext' = [cnext EXCEPT ![t] = IF tools_edge = "llm" THEN "llm" ELSE "end"]
    /\ cpc' = [cpc EXCEPT ![t] = "write"]
    /\ UNCHANGED <<cells, cafter, cturns, cinput, cresult, seqVars>>

\* The body of `for s in graph.stream(...)`:
\* app_state['messages'] = final_graph_output['messages'] (email), or
\* final_graph_output = s['llm'] / s['tools'] (the other agents).
EmailSlotWrite(t) ==
    /\ cpc[t] = "write"
    /\ cells' = [cells EXCEPT ![HistoryCell(agent, t)] = cfinal[t]]
    /\ cpc' = [cpc EXCEPT ![t] = IF cnext[t] = "end" THEN "return" ELSE "graph"]
    /\ UNCHANGED <<heap, cafter, cstate, cfinal, cnext, cturns, cinput,
                   cresult, seqVars>>

\* The stream is exhausted: the return value is read from the variable.
EmailReturn(t) ==
    /\ cpc[t] = "return"
    /\ LET messages == Deref(cells[HistoryCell(agent, t)]) IN
       cresult' = [cresult EXCEPT ![t] = ReturnValue(agent, messages, messages)]
    /\ cpc' = [cpc EXCEPT ![t] = "returned"]
    /\ UNCHANGED <<heap, cells, cafter, cstate, cfinal, cnext, cturns, cinput,
                   seqVars>>

InitConc ==
    /\ credentials = TRUE
    /\ Init

NextConc ==
    \/ \E t \in Threads : EmailReset(t)
    \/ \E t \in Threads : EmailAppend(t)
    \/ \E t \in Threads : EmailStream(t)
    \/ \E t \in Threads : EmailLlmStep(t)
    \/ \E t \in Threads : EmailToolsStep(t)
    \/ \E t \in Threads : EmailSlotWrite(t)
    \/ \E t \in Threads : EmailReturn(t)

SpecConc == InitConc /\ [][NextConc]_vars

\* ------------------------------------------------------------------ claims
HasToolCalls(m) == Len(m.tool_calls) > 0
FirstCallName(m) == m.tool_calls[1].name
CallIds(m) == {m.tool_calls[i].id : i \in 1..Len(m.tool_calls)}

\* C1 (as stated): in each of the four agents the loop is DONE only when the
\* last message of the history is an assistant message with no tool calls.
C1_DoneOnlyWithoutToolCalls ==
    pc = "done" =>
        /\ Last(history).type = "ai"
        /\ ~HasToolCalls(Last(history))

\* C1 (amended): the loop is DONE only when the last message is an assistant
\* message; in the content-writer, email and retrieval-QA agents that message
\* carries no tool calls, in the file-editor agent it may carry some.
C1_DoneOnlyAfterAssistant ==
    pc = "done" =>
        /\ Last(history).type = "ai"
        /\ agent # "code" => ~HasToolCalls(Last(history))

\* C1 witness: an email request is DONE after a dispatch and a second turn.
C1_Witness ==
    /\ pc = "done"
    /\ agent = "email"
    /\ dispatches = 1
    /\ modelCalls = 2

\* C2: in the file-editor agent, once the router has run on an assistant
\* message whose first tool call names analyze_and_edit_file, its decision is
\* 'tools' and the loop is at the tools node.
C2_RecognizedToolDispatched ==
    ( /\ agent = "code"
      /\ pc \in {"tools", "done"}
      /\ HasToolCalls(Last(history))
      /\ FirstCallName(Last(history)) = "analyze_and_edit_file" )
    => (decision = "tools" /\ pc = "tools")

\* C3: in the file-editor agent, once the router has run on an assistant
\* message whose first tool call names another tool than
\* analyze_and_edit_file, its decision is 'end', the loop is over, and no
\* call of that message has been executed.
C3_OtherToolTerminates ==
    ( /\ agent = "code"
      /\ pc \in {"tools", "done", "llm"}
      /\ Len(history) > 1
      /\ HasToolCalls(history[2])
      /\ FirstCallName(history[2]) # "analyze_and_edit_file" )
    => /\ decision = "end"
       /\ pc = "done"
       /\ Len(history) = 2
       /\ CallIds(history[2]) \cap executed = {}

\* C3 witness: the file-editor loop is DONE on a call of an unrecognized tool.
C3_Witness ==
    /\ agent = "code"
    /\ pc = "done"
    /\ HasToolCalls(Last(history))
    /\ FirstCallName(Last(history)) = "unknown_tool"

\* C4: a dispatch step on an assistant message carrying N >= 1 tool calls
\* appends exactly N tool-result messages, the i-th carrying the id of the
\* i-th requested call.
C4_DispatchAppendsOnePerCall ==
    [][pc = "tools" =>
        LET calls == Last(history).tool_calls
            N == Len(calls)
        IN /\ N >= 1
           /\ Len(history') = Len(history) + N
           /\ SubSeq(history', 1, Len(history)) = history
           /\ \A i \in 1..N :
                /\ history'[Len(history) + i].type = "tool"
                /\ history'[Len(history) + i].tool_call_id = calls[i].id]_vars

\* C4 witness: one dispatch has answered an assistant message of two calls.
C4_Witness ==
    /\ pc = "llm"
    /\ dispatches = 1
    /\ Len(history) = 4
    /\ Len(history[2].tool_calls) = 2
    /\ \A i \in 3..4 : history[i].type = "tool"

ToolResultsAnswerNearestAssistant(h) ==
    \A i \in 1..Len(h) :
        h[i].type = "tool" =>
            \E j \in 1..(i - 1) :
                /\ h[j].type = "ai"
                /\ \A k \in (j + 1)..(i - 1) : h[k].type # "ai"
                /\ h[i].tool_call_id \in CallIds(h[j])

\* C5: in every history (the graph's and the email agent's slot), each
\* tool-result message carries the id of a tool call of the nearest preceding
\* assistant message.
C5_ToolResultIdsCorrelate ==
    /\ ToolResultsAnswerNearestAssistant(history)
    /\ ToolResultsAnswerNearestAssistant(app_state)

\* C5 witness: a history holding the results of two dispatches.
C5_Witness ==
    /\ dispatches = 2
    /\ pc = "llm"
    /\ Last(history).type = "tool"

IsStrictPrefix(s, t) == Len(s) < Len(t) /\ SubSeq(t, 1, Len(s)) = s

\* C6: within a request every model turn and every dispatch leaves the
\* history before the step as a strict prefix of the history after it (the
\* email agent's slot too), and routing and returning leave it as it is.
C6_HistoryAppendOnly ==
    [][/\ (pc \in {"llm", "tools"} /\ pc' # "failed") =>
            /\ IsStrictPrefix(history, history')
            /\ agent = "email" => IsStrictPrefix(app_state, app_state')
       /\ pc \in {"route", "done"} =>
            /\ history' = history
            /\ app_state' = app_state]_vars

\* C6 witness: an email request after two model turns and a dispatch.
C6_Witness ==
    /\ agent = "email"
    /\ pc = "route"
    /\ dispatches = 1
    /\ modelCalls = 2

\* C7: each llm_node run invokes the model once and returns the input
\* history plus one message, the assistant message the model returned.
C7_TurnAppendsOneMessage ==
    [][(pc = "llm" /\ pc' # "failed") =>
        /\ modelCalls' = modelCalls + 1
        /\ llm_output'.type = "ai"
        /\ history' = Append(history, llm_output')]_vars

\* C7 witness: the second model turn of a request has run.
C7_Witness ==
    /\ pc = "route"
    /\ modelCalls = 2
    /\ Last(history) = llm_output

\* C8: right after a model turn, the sequence that was handed to the model
\* is the agent's system preamble followed by the history the turn started
\* from, and the returned history holds no system message.
C8_PreambleFirst ==
    pc = "route" =>
        /\ llm_input =
             <<SystemMessage(Preamble(agent, uploaded_file_content))>>
                 \o SubSeq(history, 1, Len(history) - 1)
        /\ \A i \in 1..Len(history) : history[i].type # "system"

\* Histories that end in the last message of h.
SameLastHistories(h) ==
    {SubSeq(h, i, Len(h)) : i \in 1..Len(h)}
        \cup {<<m, Last(h)>> :
                m \in {HumanMessage("hello"), ToolMessage("summary", 1),
                       AIMessage("answer", <<ToolCall("unknown_tool", 1)>>)}}

RouterReadsLastOnly ==
    /\ Len(history) > 0 =>
         \A h2 \in SameLastHistories(history) :
             router(agent, h2) = router(agent, history)
    /\ pc \in {"tools", "done"} => decision = router(agent, <<Last(history)>>)

\* C9: the router's decision is the same for every history ending in the
\* same last message, and a routing step changes nothing but the decision
\* and the loop's position.
C9_RouterPure ==
    /\ []RouterReadsLastOnly
    /\ [][pc = "route" =>
            UNCHANGED <<agent, history, app_state, final_graph_output,
                        uploaded_file_content, llm_input, llm_output,
                        modelCalls, dispatches, toolCalls, executed,
                        result, credentials, document_chunks, tool_runs,
                        netCalls, helperCalls, credChecks>>]_vars

\* C9 witness: the router has sent a history of four messages to the tools.
C9_Witness ==
    /\ pc = "tools"
    /\ decision = "tools"
    /\ Len(history) = 4

EmptyResponse == AIMessage("", <<>>)

\* C10: routing an assistant message with empty text and no tool calls
\* decides 'end' and takes the loop to DONE with nothing dispatched.
C10_EmptyResponseTerminates ==
    [][(pc = "route" /\ Last(history) = EmptyResponse) =>
        /\ decision' = "end"
        /\ pc' = "done"
        /\ UNCHANGED <<history, dispatches, executed>>]_vars

\* C10 witness: the content-writer loop is DONE on an empty response.
C10_Witness ==
    /\ agent = "blog"
    /\ pc = "done"
    /\ Last(history) = EmptyResponse
    /\ dispatches = 0

\* C11: when the initial history is one user message and the first response
\* carries no tool calls, the loop is DONE after exactly one model turn, with
\* nothing dispatched and a final history of two messages.
C11_SingleTurn ==
    (/\ Len(history) >= 2
     /\ history[2].type = "ai"
     /\ ~HasToolCalls(history[2]))
    => /\ history[1].type = "human"
       /\ Len(history) = 2
       /\ modelCalls = 1
       /\ dispatches = 0
       /\ pc \in {"route", "done", "returned"}

\* C11 witness: a request returned after one model turn without tool calls.
C11_Witness ==
    /\ pc = "returned"
    /\ Len(history) = 2
    /\ ~HasToolCalls(history[2])
    /\ modelCalls = 1
    /\ result = "answer"

\* Position in the history of the assistant message the latest dispatch
\* answered (the tool results follow it, one per call).
DispatchedAt(h) == Len(h) - Len(tool_runs)

\* The loop stands right after a dispatch, before the next model turn.
AfterDispatch == pc = "llm" /\ dispatches > 0

\* C12: a tool call whose name is not in the agent's registry does not make
\* dispatch raise; it is answered with a tool result carrying an error text,
\* and the loop goes on to the next model turn.
C12_UnknownToolAnswered ==
    /\ pc = "raised" => \E i \in DOMAIN tool_runs : tool_runs[i].run.raised
    /\ Len(history) > 0 /\ Last(history).type = "tool"
          => pc \in {"llm", "failed"}
    /\ AfterDispatch =>
         \A i \in DOMAIN tool_runs :
            tool_runs[i].name \notin Registry(agent) =>
               /\ ~tool_runs[i].run.ran
               /\ history[DispatchedAt(history) + i] =
                     ToolMessage(InvalidToolText,
                         history[DispatchedAt(history)].tool_calls[i].id)

\* C12 witness: a request returned after a dispatched call of an unknown tool.
C12_Witness ==
    /\ pc = "returned"
    /\ dispatches > 0
    /\ \E i \in DOMAIN tool_runs : tool_runs[i].name = "unknown_tool"
    /\ \E i \in DOMAIN history : history[i].content = InvalidToolText

\* C13: an error a tool handler raises during dispatch becomes the text of
\* that call's tool result, and the request does not abort.
C13_HandlerErrorsConverted ==
    /\ pc # "raised"
    /\ AfterDispatch =>
         \A i \in DOMAIN tool_runs :
            tool_runs[i].run.raised =>
               history[DispatchedAt(history) + i] =
                  ToolMessage(ToolNodeErrorText,
                      history[DispatchedAt(history)].tool_calls[i].id)

\* C13 witness: a content-writer request returned after login() raised in a
\* handler.
C13_Witness ==
    /\ agent = "blog"
    /\ pc = "returned"
    /\ \E i \in DOMAIN tool_runs :
          tool_runs[i].run.raised /\ tool_runs[i].run.text = BloggerCredentialsError

\* The agents whose tools need credentials.
NeedsCredentials(a) == a \in {"blog", "email"}

\* C14 as claimed: missing credentials are detected before any model
\* invocation or network call of the request.
C14_ConfigErrorBeforeModel ==
    (NeedsCredentials(agent) /\ ~credentials /\ credChecks > 0)
    => modelCalls = 0 /\ netCalls = 0

\* C14 amended: missing credentials are detected inside each dispatched
\* handler, after the model turn that asked for the tool and before the
\* handler's own network and helper-model calls, once per dispatched call.
C14_ConfigErrorInHandler ==
    (NeedsCredentials(agent) /\ ~credentials)
    => /\ netCalls = 0
       /\ helperCalls = 0
       /\ credChecks > 0 => modelCalls >= 1 /\ dispatches >= 1
       /\ credChecks <= toolCalls
       /\ \A i \in DOMAIN tool_runs :
             tool_runs[i].run.ran =>
                /\ tool_runs[i].run.checks = 1
                /\ tool_runs[i].run.net = 0
                /\ tool_runs[i].run.helper = 0
                /\ tool_runs[i].run.raised \/
                   tool_runs[i].run.text \in
                     {"An unexpected error occurred while listing unread emails",
                      "An unexpected error occurred while summarizing email"}

\* C14 witness: an email request without credentials whose handler reported
\* the missing credentials.
C14_Witness ==
    /\ agent = "email"
    /\ ~credentials
    /\ credChecks > 0
    /\ \E i \in DOMAIN tool_runs :
          tool_runs[i].run.text =
              "An unexpected error occurred while listing unread emails"

\* C15: process_rag_request with document_chunks None returns the literal
\* error text, with no model invocation and no dispatch.
C15_NoDocumentNoModel ==
    (agent = "rag" /\ document_chunks = "None" /\ pc # "idle")
    => /\ pc = "returned"
       /\ result =
           "Error: No document processed. Please upload and process a document first."
       /\ modelCalls = 0
       /\ dispatches = 0
       /\ history = <<>>

\* C15 witness: a retrieval request without a document returned the error
\* text and the model was never given an input.
C15_Witness ==
    /\ agent = "rag"
    /\ document_chunks = "None"
    /\ pc = "returned"
    /\ result = NoDocumentError
    /\ llm_input = <<>>

\* C16: with zero unread messages the result text of list_unread_emails is
\* exactly "You have no unread messages."
C16_NoUnreadText ==
    \A i \in DOMAIN tool_runs :
       (tool_runs[i].name = "list_unread_emails"
           /\ tool_runs[i].outcome = "empty")
       => tool_runs[i].run.text = "You have no unread messages."

\* C17 as claimed: at DONE the entry point returns exactly the content of the
\* last message of the final history, empty text included.
C17_ReturnsLastContent ==
    (pc = "returned" /\ Len(history) > 0) => result = Last(history).content

EmailNoContentText == "AI finished processing without explicit content."

\* C17 amended: at DONE the entry point returns the content of the last
\* message of the final history, except that the email agent returns a fixed
\* text when the final assistant message has no text.
C17_ReturnsLastContentOrEmailText ==
    (pc = "returned" /\ Len(history) > 0)
    => result = IF agent = "email" /\ Last(history).content = ""
                THEN EmailNoContentText
                ELSE Last(history).content

\* C17 witness: the email agent returned on a final assistant message
\* without text.
C17_Witness ==
    /\ agent = "email"
    /\ pc = "returned"
    /\ Last(history).type = "ai"
    /\ Last(history).content = ""
    /\ result = EmailNoContentText

\* C18: a request that ends on a final assistant message without text
\* returns the agent's generic "No response" fallback.
C18_EmptyTextFallsBack ==
    (/\ pc = "returned"
     /\ Len(history) > 0
     /\ Last(history).type = "ai"
     /\ Last(history).content = "")
    => result = NoResponse(agent)

\* A message carrying a tool call the agent's dispatcher has a handler for.
CarriesDispatchableCall(a, m) ==
    /\ m.type = "ai"
    /\ \E i \in DOMAIN m.tool_calls : m.tool_calls[i].name \in Registry(a)

\* C20: when every model turn's response carries a dispatchable tool call,
\* the loop does not reach DONE.
C20_NeverDoneWhileToolCalls ==
    (/\ pc \in {"done", "returned"}
     /\ Len(history) > 0)
    => \E i \in DOMAIN history :
          history[i].type = "ai" /\ ~CarriesDispatchableCall(agent, history[i])

\* The history of thread t's latest model turn holds the other request's
\* user message.
ModelTurnOnOthersHistory(t) ==
    \E u \in Threads \ {t} : \E i \in DOMAIN cinput[t] :
       cinput[t][i] = HumanMessage(ThreadUserText(u))

\* Thread t returned what the slot held, and the slot held a list another
\* request's graph had produced.
ReturnedOthersResult(t) ==
    /\ agent = "email"
    /\ cpc[t] = "returned"
    /\ Owner(cells["app_state"]) # t
    /\ cresult[t] = ReturnValue("email", <<>>, Deref(cells["app_state"]))
    /\ Deref(cells["app_state"]) # Deref(cfinal[t])
    /\ cresult[t] # ReturnValue("email", <<>>, Deref(cfinal[t]))

\* C19: nothing serializes two email requests: no step of a request waits
\* for the other request, so a request can enter, rebind the shared slot,
\* append to it, and read its result from it while the other is in flight.
C19_NotSerialized ==
    \A t \in Threads :
       /\ cpc[t] = "idle" => ENABLED EmailReset(t)
       /\ cpc[t] = "append" => ENABLED EmailAppend(t)
       /\ cpc[t] = "stream" => ENABLED EmailStream(t)
       /\ cpc[t] = "write" => ENABLED EmailSlotWrite(t)
       /\ cpc[t] = "return" => ENABLED EmailReturn(t)

\* C19 witness: both corruptions in one state: a model turn of A ran on a
\* history holding B's message, and B returned the result of A's history.
C19_Witness ==
    /\ ModelTurnOnOthersHistory("A")
    /\ ReturnedOthersResult("B")

\* Number of assistant messages in a history.
AiCount(h) == Cardinality({i \in DOMAIN h : h[i].type = "ai"})

\* Model invocations of this request that produced no message.
FailedTurns == modelCalls - AiCount(history)

\* C21: a failed model invocation is not retried, appends no message, and
\* ends the request without a result: at most one invocation of a request
\* fails, and after it no model turn, routing, dispatch or return can run.
C21_ModelFailurePropagates ==
    /\ FailedTurns \in {0, 1}
    /\ pc = "failed" <=> FailedTurns = 1
    /\ pc = "failed" =>
         /\ Last(history).type \in {"human", "tool"}
         /\ llm_input = messages_for_llm(agent, uploaded_file_content, history)
         /\ result = "none"
         /\ ~ENABLED LlmNode
         /\ ~ENABLED LlmFails
         /\ ~ENABLED Route
         /\ ~ENABLED ToolsNode
         /\ ~ENABLED Return

\* C21 witness: the second model invocation of a request failed, after one
\* dispatch.
C21_Witness ==
    /\ pc = "failed"
    /\ modelCalls = 2
    /\ dispatches = 1
    /\ Len(history) >= 3

\* C22: after a dispatch the next step is a model turn, and a request that is
\* DONE made one model invocation more than it ran dispatch batches.
C22_DispatchThenModel ==
    /\ (Len(history) > 0 /\ Last(history).type = "tool")
          => /\ pc \in {"llm", "failed"}
             /\ (pc = "llm" /\ modelCalls < MaxTurns) => ENABLED LlmNode
             /\ ~ENABLED Route
             /\ ~ENABLED ToolsNode
             /\ ~ENABLED Return
    /\ (pc \in {"done", "returned"} /\ Len(history) > 0)
          => modelCalls = dispatches + 1

\* C22 witness: a request is DONE after two dispatch batches.
C22_Witness ==
    /\ pc = "done"
    /\ dispatches = 2
    /\ modelCalls = 3

\* C24: on every model turn the tools advertised to the model are the tools
\* the agent's dispatcher can execute.
C24_AdvertisedAreDispatchable ==
    (pc = "route" /\ modelCalls >= 1) => Advertised(agent) = Registry(agent)

\* An assistant message with both text and tool calls.
TextAndToolCalls(m) == m.type = "ai" /\ m.content # "" /\ HasToolCalls(m)

\* C25: in the content-writer, email and retrieval agents an assistant
\* message carrying both text and tool calls is routed to the tools: the
\* loop is not DONE on it and its text is not returned.
C25_ToolCallsWinOverText ==
    (agent # "code" /\ Len(history) > 0 /\ TextAndToolCalls(Last(history)))
    => /\ router(agent, history) = "tools"
       /\ pc \in {"route", "tools"}
       /\ pc = "tools" => decision = "tools"
       /\ result = "none"

\* C25 witness: the retrieval router has sent a message with text and tool
\* calls to the tools.
C25_Witness ==
    /\ agent = "rag"
    /\ pc = "tools"
    /\ decision = "tools"
    /\ Last(history).content = "answer"
    /\ HasToolCalls(Last(history))

EmailErrorTexts ==
    {"Error connecting to email server",
     "An unexpected error occurred while listing unread emails",
     "An unexpected error occurred while summarizing email"}

\* C26: in the email agent a failure of connect() inside a tool becomes that
\* tool's result text; it is not raised out of the tool, and the loop goes on
\* to the next model turn.
C26_ConnectFailureIsToolResult ==
    agent = "email" =>
       /\ pc # "raised"
       /\ \A i \in DOMAIN tool_runs :
             (tool_runs[i].run.ran
                 /\ tool_runs[i].outcome \in {"no_credentials", "error"})
             => /\ ~tool_runs[i].run.raised
                /\ tool_runs[i].run.text \in EmailErrorTexts
                /\ AfterDispatch =>
                      /\ history[DispatchedAt(history) + i].type = "tool"
                      /\ history[DispatchedAt(history) + i].content =
                            tool_runs[i].run.text

\* C26 witness: an email request returned after connect() failed on a
\* rejected login in a dispatched tool.
C26_Witness ==
    /\ agent = "email"
    /\ pc = "returned"
    /\ \E i \in DOMAIN tool_runs :
          /\ tool_runs[i].outcome = "error"
          /\ tool_runs[i].run.text = "Error connecting to email server"
    /\ \E i \in DOMAIN history :
          history[i].content = "Error connecting to email server"

\* C27: the document_chunks a dispatched retrieve_context searches are the
\* document_chunks given to process_rag_request.
C27_SearchesRequestChunks ==
    (agent = "rag" /\ AfterDispatch) =>
       \A i \in DOMAIN tool_runs :
          (tool_runs[i].name = "retrieve_context" /\ tool_runs[i].run.ran)
          => SearchedChunks(
                 history[DispatchedAt(history)].tool_calls[i].args,
                 document_chunks) = document_chunks

\* C29: in the content-writer agent the router runs only on a history ending
\* in an assistant message, and never decides 'llm'.
C29_BlogRouterNeverLlm ==
    agent = "blog" =>
       /\ decision # "llm"
       /\ pc # "error"
       /\ pc = "route" => Last(history).type = "ai"
       /\ ENABLED Route => pc = "route" /\ Last(history).type = "ai"
       /\ (Len(history) > 0 /\ Last(history).type = "tool") => ~ENABLED Route

\* C29 witness: the content-writer router has decided on the second model
\* turn, after a dispatch.
C29_Witness ==
    /\ agent = "blog"
    /\ modelCalls = 2
    /\ dispatches = 1
    /\ decision = "end"
    /\ pc = "done"

\* Thread t's request ran with no other request in flight so far: it entered
\* after the others had returned, or the others have not entered yet.
RanAlone(t) ==
    cafter[t] \/ \A u \in Threads \ {t} : cpc[u] = "idle"

ListsOf(t) == {cstate[t], cfinal[t], cells[HistoryCell(agent, t)]} \ {NoList}

\* C28: in the content-writer, file-editor and retrieval agents the history
\* of an in-flight request is read and written by that request only: every
\* list it reads was created by it and holds no message of another request,
\* and what it returns comes from its own final history.
C28_HistoryOwnedByRequest ==
    agent # "email" =>
       \A t \in Threads :
          /\ cpc[t] # "idle" =>
                \A ref \in ListsOf(t) :
                   /\ Owner(ref) = t
                   /\ \A i \in DOMAIN Deref(ref) :
                         Deref(ref)[i].type = "human" =>
                            Deref(ref)[i].content = ThreadUserText(t)
          /\ \A i \in DOMAIN cinput[t] :
                cinput[t][i].type = "human" =>
                   cinput[t][i].content = ThreadUserText(t)
          /\ cpc[t] = "returned" =>
                cresult[t] = ReturnValue(agent, Deref(cfinal[t]),
                                         Deref(cfinal[t]))

\* C28 witness: two retrieval requests are in flight together, each after a
\* dispatch and a second model turn.
C28_Witness ==
    /\ agent = "rag"
    /\ \A t \in Threads : cpc[t] = "write" /\ cturns[t] = 2
    /\ \A t \in Threads : Len(Deref(cfinal[t])) = 4

\* The texts the agent's tools return when their collaborators work.
ToolResultTexts ==
    {Handler(n, TRUE, o).text : n \in Registry(agent), o \in ConcOutcomes}

\* C30 as claimed: no request ends on a tool result, and no entry point
\* returns a tool result's content.
C30_NeverReturnsToolResult ==
    \A t \in Threads :
       /\ cpc[t] \in {"return", "returned"} =>
             Last(Deref(cfinal[t])).type = "ai"
       /\ cpc[t] = "returned" => cresult[t] \notin ToolResultTexts

\* C30 amended: in the content-writer, file-editor and retrieval agents, and
\* in the email agent when the request ran with no other request in flight,
\* the request's final history ends with an assistant message and the value
\* returned is derived from it, never from a tool result.
C30_OwnHistoryEndsWithAssistant ==
    \A t \in Threads :
       (agent # "email" \/ RanAlone(t)) =>
          /\ cpc[t] \in {"return", "returned"} =>
                Last(Deref(cfinal[t])).type = "ai"
          /\ cpc[t] = "returned" =>
                /\ cresult[t] \notin ToolResultTexts
                /\ cresult[t] = ReturnValue(agent, Deref(cfinal[t]),
                                            Deref(cfinal[t]))

\* C30 witness: an email request that ran alone returned the model's answer
\* after a dispatch.
C30_Witness ==
    /\ agent = "email"
    /\ cpc["A"] = "returned"
    /\ cpc["B"] = "idle"
    /\ Len(Deref(cfinal["A"])) = 4
    /\ Deref(cfinal["A"])[3].type = "tool"
    /\ cresult["A"] = "answer"

\* The shape of a history: one user message first; then assistant and tool
\* messages only; an assistant message that is not the last one carries tool
\* calls and is followed by a tool result; a tool result follows a tool
\* result or an assistant message carrying tool calls.
HistoryShape(h) ==
    /\ Len(h) >= 1
    /\ h[1].type = "human"
    /\ \A i \in 2..Len(h) :
          /\ h[i].type \in {"ai", "tool"}
          /\ h[i].type = "ai" /\ i < Len(h) =>
                HasToolCalls(h[i]) /\ h[i + 1].type = "tool"
          /\ h[i].type = "tool" =>
                \/ h[i - 1].type = "tool"
                \/ h[i - 1].type = "ai" /\ HasToolCalls(h[i - 1])

\* Thread t's request is inside the graph loop or past it.
InLoop(t) == cpc[t] \in {"graph", "write", "return", "returned"}

\* C31 as claimed: in every state of any agent's loop the history is one user
\* message, then groups of an assistant message with tool calls and its tool
\* results, then at most one last assistant message.
C31_HistoryShapeAlways ==
    \A t \in Threads : InLoop(t) => HistoryShape(Deref(cstate[t]))

\* C31 amended: the history has that shape in the content-writer, file-editor
\* and retrieval agents, and in the email agent when the request ran with no
\* other request in flight.
C31_OwnHistoryShape ==
    \A t \in Threads :
       (InLoop(t) /\ (agent # "email" \/ RanAlone(t)))
       => HistoryShape(Deref(cstate[t]))

\* C31 witness: two content-writer requests are in their loops at once, and
\* A's history stands at the end of a group (user, assistant with a tool
\* call, tool result).
C31_Witness ==
    /\ agent = "blog"
    /\ cpc["A"] = "graph"
    /\ cpc["B"] = "graph"
    /\ Len(Deref(cstate["A"])) = 3
    /\ HasToolCalls(Deref(cstate["A"])[2])
    /\ Deref(cstate["A"])[3].type = "tool"
    /\ HistoryShape(Deref(cstate["A"]))

\* C32: in the content-writer agent, once login() has succeeded the
\* module-level LOGGED_IN flag is true and later tool invocations skip
\* login(): with the credentials set, login() runs at most once.
C32_LoginRunsOnce ==
    (agent = "blog" /\ credentials) =>
       /\ credChecks >= 1 => LOGGED_IN
       /\ credChecks <= 1

====
